---- MODULE Spec2Model ----
(***************************************************************************)
(* The Seiki backend.  Spec and SpecChain: the pagination layer, the        *)
(* class-based Paginator (app/schemas/paginator.py) and the function       *)
(* ApiResponse.paginate (app/schemas/response.py), run against a           *)
(* relational store whose rows other requests may insert and delete        *)
(* between two calls.  SpecAuth and SpecAdmin: login, refresh and logout   *)
(* of clients and of administrators.  SpecTeam: team management.           *)
(* SpecInvite: invitations to a team.  SpecPlans: deletion of media plans.  *)
(* SpecCodes: the cooldown of the verification and reset codes under       *)
(* concurrent requests.                                                    *)
(***************************************************************************)
EXTENDS Integers, Sequences, FiniteSets, TLC

\* ------------------------------------------------------------------ bounds
MaxRows    == 2   \* rows the caller's query returns at most
MaxPage    == 2   \* largest page argument passed to paginate
MaxPerPage == 2   \* largest per_page argument passed to paginate
MaxProcs   == 2   \* processors registered on one Paginator at most
MaxCalls   == 2   \* paginate() calls on one Paginator instance at most
MaxMut     == 1   \* inserts/deletes by other requests during one run
MaxUsers   == 2   \* rows of the table users, and of the table admins
MaxLogins  == 2   \* rows of the table tokens, and of the table admin_tokens
MaxPlans   == 2   \* rows of the table media_plans
MaxCampaigns == 2 \* rows of the table campaigns
MaxReqs    == 2   \* send-code requests made at most
MaxInvites == 1   \* invitations sent at most

\* ------------------------------------------------------------------ values
\* Python's None and Optional[x]: None is the empty tuple, a value v is <<v>>.
None    == << >>
Some(v) == << v >>
Get(o)  == o[1]

RowIds   == 1 .. MaxRows        \* primary keys of the rows the query can select
Entities == 1 .. MaxRows        \* identities of the ORM objects in the session

Pages    == 0 .. MaxPage        \* page arguments, 0 stands for every page < 1
PerPages == 0 .. MaxPerPage     \* per_page arguments, 0 for every per_page < 1

\* The caller's query: select(Entity); select(Entity, aggregate) grouped by
\* entity; select(Entity, Child.id) joined to the children of the entity.
Queries == {"entity", "entity_aggregate", "entity_child"}

\* result.keys(): the names of the result columns
keys(q) == IF q = "entity" THEN << "Entity" >> ELSE << "Entity", "extra" >>

\* The entity in the first column of the row with primary key r: in the join
\* every entity has two child rows, elsewhere every row is another entity.
EntityOf(q, r) == IF q = "entity_child" THEN (r + 1) \div 2 ELSE r

\* The row with primary key r as the query returns it; the extra column holds r.
Row(q, r) == IF q = "entity" THEN << r >> ELSE << EntityOf(q, r), r >>

\* The primary key of a row of the query.
RowId(row) == row[Len(row)]

\* The rows the query returns, ordered by primary key, when the table holds ids.
Result(q, ids) ==
    LET all      == [r \in RowIds |-> Row(q, r)]
        In(row)  == RowId(row) \in ids
    IN  SelectSeq(all, In)

\* An item of the page: an ORM entity, or what map()/a processor made of it.
Entity(e) == [ent |-> e, form |-> "orm"]

Max(a, b) == IF a >= b THEN a ELSE b
Min(a, b) == IF a <= b THEN a ELSE b

\* math.ceil(a / b) for b > 0 (the float quotient is exact for the counts modelled)
ceil(a, b) == -((-a) \div b)

\* Python's `x or 0` on an Optional[int]
OrZero(o) == IF o = None THEN 0 ELSE Get(o)

\* Python's `x or []` on an Optional[list]
OrEmpty(o) == IF o = None THEN << >> ELSE Get(o)

\* ------------------------------------------------------------------ store
\* Faulty variant of OffsetLimit: the limit is not applied.
OffsetLimit_nolimit(rows, off, lim) ==
    IF off >= Len(rows) THEN << >> ELSE SubSeq(rows, off + 1, Len(rows))

\* query.offset(off).limit(lim) executed on the rows the query returns.
OffsetLimit(rows, off, lim) ==
    IF off >= Len(rows) \/ lim = 0 THEN << >>
    ELSE SubSeq(rows, off + 1, Min(off + lim, Len(rows)))

\* result.scalars().all(): the first column of every row.
scalars(rows) == [i \in 1 .. Len(rows) |-> Entity(rows[i][1])]

\* ------------------------------------------------------------------ state
VARIABLES
    endpoint,       \* which implementation serves the request
    store,          \* the rows the caller's query returns now, in query order
    query,          \* the caller's query
    attrs,          \* attrs[e]: the attribute named by the extra column's alias on entity e
    muts,           \* inserts/deletes done so far by other requests
    _items, _total, _per_page, _page, _last_page, _processors, _result,
    raised,         \* exception the last Paginator call ended with, None if it returned
    calls,          \* paginate() calls made on the Paginator instance
    countQueries,   \* count queries the Paginator instance has issued
    pageQueries,    \* page queries the Paginator instance has issued
    args,           \* the arguments of the last paginate call
    resp,           \* what the last ApiResponse.paginate call produced
    before,         \* None unless the last operation on the instance was paginate();
                    \* then Some(<<e, a>>) if that call repeated the call before it at
                    \* once, with no row inserted or deleted so far, e being the
                    \* outcome of the call before it and a the attributes of the
                    \* entities after it, and Some(<< >>) if not
    session,        \* the state of the session lent to the paginator
    users,          \* table users
    tokens,         \* table tokens
    admins,         \* table admins
    admin_tokens,   \* table admin_tokens
    loggedOut,      \* the refresh tokens logout has been called with
    res,            \* the last request outside pagination and its response
    media_plans,    \* table media_plans
    campaigns,      \* table campaigns
    media_plan_campaigns,   \* table media_plan_campaigns
    campaign_inventories,   \* table campaign_inventories
    redis,          \* the keys of the Redis store
    reqs,           \* the send-code requests made, each with the step it is at
    window          \* the codes stored per operation and email since a
                    \* cooldown period last went by

vars == << endpoint, store, query, attrs, muts, _items, _total, _per_page, _page,
           _last_page, _processors, _result, raised, calls, countQueries,
           pageQueries, args, resp, before, session,
           users, tokens, admins, admin_tokens, loggedOut, res,
           media_plans, campaigns, media_plan_campaigns, campaign_inventories,
           redis, reqs, window >>

paginator == << _items, _total, _per_page, _page, _last_page, _processors, _result,
                raised, calls, countQueries, pageQueries >>

pages == << endpoint, store, query, attrs, muts, paginator, args, resp, before, session >>

accounts == << users, tokens, admins, admin_tokens, loggedOut >>
plans    == << media_plans, campaigns, media_plan_campaigns, campaign_inventories >>
codes    == << redis, reqs, window >>

\* what a pagination request leaves alone
beyondPages == << accounts, plans, codes, res >>

\* ------------------------------------------------------------------ processors
\* Callables a caller passes to process() or as transform_func: a filter, a
\* flat-map that emits every item twice and a per-item map to a dictionary.
Processors == {"drop", "dup"}
Transforms == Processors \cup {"dict", "transform"}

Call(f, items) ==
    CASE f = "dict" -> [i \in 1 .. Len(items) |-> [items[i] EXCEPT !.form = "dict"]]
      [] f = "drop" -> IF items = << >> THEN << >> ELSE Tail(items)
      [] f = "dup"  -> items \o items
      [] f = "transform" ->
            \* billboard_count = getattr(c, "billboard_count", 0) or 0
            [i \in 1 .. Len(items) |->
                [ent |-> items[i].ent, form |-> "dict",
                 billboards |-> OrZero(attrs[items[i].ent])]]

\* Faulty variant of ApplyProcessors: the processor registered last runs first.
RECURSIVE ApplyProcessors_reversed(_, _)
ApplyProcessors_reversed(procs, items) ==
    IF procs = << >> THEN items
    ELSE Call(Head(procs), ApplyProcessors_reversed(Tail(procs), items))

\* for processor in self._processors: self._items = processor(self._items),
\* awaited when the processor is a coroutine function
RECURSIVE ApplyProcessors(_, _)
ApplyProcessors(procs, items) ==
    IF procs = << >> THEN items
    ELSE ApplyProcessors(Tail(procs), Call(Head(procs), items))

\* ------------------------------------------------------------------ Paginator
\* for row in rows: setattr(main_entity, keys[1], row[1]), in row order
RECURSIVE SetAttrs(_, _)
SetAttrs(heap, rows) ==
    IF rows = << >> THEN heap
    ELSE SetAttrs([heap EXCEPT ![Head(rows)[1]] = Some(Head(rows)[2])], Tail(rows))

\* _process_multi_column_result: the main entity of every row
MainEntities(rows) == [i \in 1 .. Len(rows) |-> Entity(rows[i][1])]

\* Faulty variant of ClampPage: the page is used as passed.
ClampPage_none(page) == page

ClampPage(page)        == Max(1, page)
ClampPerPage(per_page) == Max(1, per_page)

\* Faulty variant of NeedsCount: every call counts again.
NeedsCount_always(cached) == TRUE

\* Faulty variant of Total: the cached total is ignored.
Total_recount(cached, rows) == Len(rows)

\* if self._total is None: the count query is issued
NeedsCount(cached) == cached = None

\* self._total after the count step: the count of the query's rows, or the cached one
Total(cached, rows) == IF cached = None THEN Len(rows) ELSE Get(cached)

\* Faulty variant of LastPage: floor instead of ceil.
LastPage_floor(total, per_page) == IF per_page > 0 THEN total \div per_page ELSE 0

LastPage(total, per_page) == IF per_page > 0 THEN ceil(total, per_page) ELSE 0

\* Faulty variant of Offset: the offset of the following page.
Offset_next(page, per_page) == page * per_page

\* Faulty variant of Offset: the offset of the preceding page.
Offset_prev(page, per_page) == (page - 2) * per_page

\* Faulty variant of Offset: the offset is added to the one of the call before.
Offset_cumulative(page, per_page) ==
    (page - 1) * per_page + (IF _result = None THEN 0 ELSE (_page - 1) * _per_page)

Offset(page, per_page) == (page - 1) * per_page

\* The store refuses a negative OFFSET or LIMIT.
Refused(off, lim) == off < 0 \/ lim < 0

\* mapper(items) of map(): one model instance per item, in order
mapper(items) == [i \in 1 .. Len(items) |-> [items[i] EXCEPT !.form = "model"]]

\* Faulty variant of has_more: the last page reports more pages.
has_more_le == _page <= OrZero(_last_page)

has_more == _page < OrZero(_last_page)

to_dict == [items        |-> OrEmpty(_items),
            total        |-> OrZero(_total),
            per_page     |-> _per_page,
            current_page |-> _page,
            last_page    |-> OrZero(_last_page),
            has_more     |-> has_more]

DefaultPage    == 1
DefaultPerPage == 10

\* Faulty variant of Execute: the statement is committed at once.
Execute_autocommit(s) == "committed"

\* await self.db.execute(...): the session begins its transaction with the
\* first statement; nothing else is called on it.
Execute(s) == IF s = "new" THEN "begun" ELSE s

\* No account, media plan or send-code request exists.
NoAccounts ==
    /\ users = << >> /\ tokens = << >> /\ admins = << >> /\ admin_tokens = << >>
    /\ loggedOut = {} /\ res = None
NoPlans ==
    /\ media_plans = {} /\ campaigns = {}
    /\ media_plan_campaigns = {} /\ campaign_inventories = {}
NoCodes == redis = {} /\ reqs = << >> /\ window = << >>

\* No pagination request is served: a Paginator fresh from __init__ over no rows.
NoPages ==
    /\ endpoint = "Paginator" /\ query = "entity" /\ store = << >>
    /\ attrs = [e \in Entities |-> None] /\ muts = 0
    /\ _items = None /\ _total = None /\ _per_page = DefaultPerPage
    /\ _page = DefaultPage /\ _last_page = None /\ _processors = << >>
    /\ _result = None /\ raised = None /\ calls = 0 /\ countQueries = 0
    /\ pageQueries = 0 /\ args = None /\ resp = None /\ before = None
    /\ session = "new"

Init ==
    /\ endpoint \in {"Paginator", "ApiResponse"}
    /\ query \in Queries
    /\ store \in { Result(query, ids) : ids \in SUBSET RowIds }
    /\ attrs = [e \in Entities |-> None]
    /\ muts = 0
    /\ _items = None
    /\ _total = None
    /\ _per_page = DefaultPerPage
    /\ _page = DefaultPage
    /\ _last_page = None
    /\ _processors = << >>
    /\ _result = None
    /\ raised = None
    /\ calls = 0
    /\ countQueries = 0
    /\ pageQueries = 0
    /\ args = None
    /\ resp = None
    /\ before = None
    /\ session = "new"
    /\ NoAccounts /\ NoPlans /\ NoCodes

Paginate(page, per_page) ==
    /\ endpoint = "Paginator"
    /\ calls < MaxCalls
    /\ LET pg    == ClampPage(page)
           pp    == ClampPerPage(per_page)
           total == Total(_total, store)
           off   == Offset(pg, pp)
           rows  == OffsetLimit(store, off, pp)
           fetched == IF Len(keys(query)) = 1 THEN scalars(rows) ELSE MainEntities(rows)
       IN  /\ _page' = pg
           /\ _per_page' = pp
           /\ _total' = Some(total)
           /\ countQueries' = IF NeedsCount(_total) THEN countQueries + 1 ELSE countQueries
           /\ _last_page' = Some(LastPage(total, pp))
           /\ pageQueries' = pageQueries + 1
           /\ IF Refused(off, pp)
              THEN /\ raised' = Some("DBAPIError")
                   /\ UNCHANGED << _result, _items, attrs >>
              ELSE /\ raised' = None
                   /\ _result' = Some(rows)
                   /\ attrs' = IF Len(keys(query)) = 1 THEN attrs ELSE SetAttrs(attrs, rows)
                   /\ _items' = Some(ApplyProcessors(_processors, fetched))
    /\ calls' = calls + 1
    /\ args' = Some([page |-> page, per_page |-> per_page, transform_func |-> None])
    /\ before' = IF before # None /\ muts = 0
                    /\ args = Some([page |-> page, per_page |-> per_page,
                                    transform_func |-> None])
                 THEN Some(<< to_dict, attrs >>) ELSE Some(<< >>)
    /\ session' = Execute(session)
    /\ UNCHANGED << endpoint, store, query, muts, _processors, resp, beyondPages >>

process(callback) ==
    /\ endpoint = "Paginator"
    /\ Len(_processors) < MaxProcs
    /\ _processors' = Append(_processors, callback)
    /\ raised' = None
    /\ before' = None
    /\ UNCHANGED << endpoint, store, query, attrs, muts, _items, _total, _per_page,
                    _page, _last_page, _result, calls, countQueries, pageQueries,
                    args, resp, session, beyondPages >>

\* map(model_class): iterating None raises TypeError before anything is assigned
map ==
    /\ endpoint = "Paginator"
    /\ IF _items = None
       THEN /\ raised' = Some("TypeError")
            /\ UNCHANGED _items
       ELSE /\ raised' = None
            /\ _items' = Some(mapper(Get(_items)))
    /\ before' = None
    /\ UNCHANGED << endpoint, store, query, attrs, muts, _total, _per_page, _page,
                    _last_page, _processors, _result, calls, countQueries,
                    pageQueries, args, resp, session, beyondPages >>

\* ------------------------------------------------------------------ ApiResponse
Failed(code, message, nCount) ==
    [status |-> code, message |-> message, data |-> None,
     counts |-> nCount, pages |-> 0]

PaginatedData(items, total, per_page, page, last_page) ==
    [items        |-> items,
     total        |-> total,
     per_page     |-> per_page,
     current_page |-> page,
     last_page    |-> last_page,
     has_more     |-> page < last_page]

\* Faulty variant of PageNotFound: an empty result set is an error too.
PageNotFound_empty(page, last_page) == page > last_page

\* if page > last_page and last_page > 0: raise 404
PageNotFound(page, last_page) == page > last_page /\ last_page > 0

ApiResponse_paginate(page, per_page, transform_func) ==
    IF page < 1 \/ per_page < 1
    THEN Failed(400, "Invalid page or per_page parameter", 0)
    ELSE LET total     == Len(store)
             last_page == LastPage(total, per_page)
             rows      == OffsetLimit(store, Offset(page, per_page), per_page)
             items     == IF transform_func = None THEN scalars(rows)
                          ELSE Call(Get(transform_func), scalars(rows))
         IN  IF PageNotFound(page, last_page)
             THEN Failed(404, "Page not found", 1)
             ELSE [status |-> 200, message |-> "Success",
                   data |-> Some(PaginatedData(items, total, per_page, page, last_page)),
                   counts |-> 1, pages |-> 1]

ApiPaginate(page, per_page, transform_func) ==
    /\ endpoint = "ApiResponse"
    /\ resp' = Some(ApiResponse_paginate(page, per_page, transform_func))
    /\ args' = Some([page |-> page, per_page |-> per_page,
                      transform_func |-> transform_func])
    /\ before' = IF before # None /\ muts = 0
                    /\ args = Some([page |-> page, per_page |-> per_page,
                                    transform_func |-> transform_func])
                 THEN Some(<< Get(resp), attrs >>) ELSE Some(<< >>)
    /\ session' = IF page < 1 \/ per_page < 1 THEN session ELSE Execute(session)
    /\ UNCHANGED << endpoint, store, query, attrs, muts, paginator, beyondPages >>

\* ------------------------------------------------------------------ other requests
\* another request commits a row the query selects
InsertRow ==
    /\ muts < MaxMut
    /\ \E r \in RowIds :
          LET ids == { RowId(store[i]) : i \in 1 .. Len(store) }
          IN  /\ r \notin ids
              /\ store' = Result(query, ids \cup {r})
    /\ muts' = muts + 1
    /\ before' = IF before = None THEN None ELSE Some(<< >>)
    /\ UNCHANGED << endpoint, query, attrs, paginator, args, resp, session, beyondPages >>

\* another request deletes a row the query selects
DeleteRow ==
    /\ muts < MaxMut
    /\ \E i \in 1 .. Len(store) :
          store' = SubSeq(store, 1, i - 1) \o SubSeq(store, i + 1, Len(store))
    /\ muts' = muts + 1
    /\ before' = IF before = None THEN None ELSE Some(<< >>)
    /\ UNCHANGED << endpoint, query, attrs, paginator, args, resp, session, beyondPages >>

Next ==
    \/ \E page \in Pages, per_page \in PerPages : Paginate(page, per_page)
    \/ map
    \/ \E page \in Pages, per_page \in PerPages,
          transform_func \in {None} \cup { Some(f) : f \in Transforms } :
            ApiPaginate(page, per_page, transform_func)
    \/ InsertRow
    \/ DeleteRow

Spec == Init /\ [][Next]_vars

\* ------------------------------------------------------------------ SpecChain
\* The same endpoints when the caller chains processors on the Paginator and
\* no other request changes the rows meanwhile.
NextChain ==
    \/ \E page \in Pages, per_page \in PerPages : Paginate(page, per_page)
    \/ \E callback \in Processors : process(callback)
    \/ map
    \/ \E page \in Pages, per_page \in PerPages,
          transform_func \in {None} \cup { Some(f) : f \in Transforms } :
            ApiPaginate(page, per_page, transform_func)

SpecChain == Init /\ [][NextChain]_vars

\* ------------------------------------------------------------------ accounts
UserIds   == 1 .. MaxUsers          \* primary keys of users, and of admins
Emails    == 0 .. MaxUsers          \* the address of user u is u, nobody has address 0
Passwords == {"secret", "guess"}    \* every account was created with "secret"

\* str(user.id) and int(user_id)
str(n) == [str |-> n]
int(s) == s.str

\* pwd_context.hash and pwd_context.verify
pwd_hash(secret)          == [bcrypt |-> secret]
pwd_verify(plain, hashed) == hashed = pwd_hash(plain)

\* AuthBase.create_refresh_token / create_access_token; jti stands for uuid4()
create_refresh_token(subject, jti)       == [sub |-> str(subject), jti |-> jti, scope |-> "refresh"]
create_access_token(subject, scope, jti) == [sub |-> str(subject), jti |-> jti, scope |-> scope]

\* A string that is no token of this deployment, or a token whose exp has passed.
Garbage == [sub |-> str(0), jti |-> << "none", 0 >>, scope |-> "none"]

\* AuthBase.verify_token: the payload, or None on a JWTError or a wrong scope
verify_token(token, scope) ==
    IF token = Garbage THEN None
    ELSE IF scope # None /\ token.scope # Get(scope) THEN None
    ELSE Some(token)

\* Faulty variant of verify_token_hash: any token matches the stored hash.
verify_token_hash_any(plain_token, hashed_token) == TRUE

\* AuthBase.hash_token / verify_token_hash
hash_token(token) == pwd_hash(token)
verify_token_hash(plain_token, hashed_token) == pwd_verify(plain_token, hashed_token)

\* WHERE <integer column> == <the "sub" of a payload>: the store compares the
\* column with the number the string denotes
ColumnEq(column, sub) == column = int(sub)

\* update(...).where(<owner column> == sub, is_active == True).values(is_active=False)
Deactivate(rows, sub) ==
    [i \in 1 .. Len(rows) |->
        IF ColumnEq(rows[i].owner, sub) /\ rows[i].is_active
        THEN [rows[i] EXCEPT !.is_active = FALSE] ELSE rows[i]]

\* select(...).where(<owner column> == sub, is_active == True): the matching rows
ActiveRows(rows, sub) ==
    { i \in 1 .. Len(rows) : ColumnEq(rows[i].owner, sub) /\ rows[i].is_active }

\* A row of tokens (owner is user_id) or of admin_tokens (owner is admin_id)
TokenRow(owner, refresh_token) ==
    [owner |-> owner, token |-> hash_token(refresh_token), is_active |-> TRUE]

\* The token pair a login returns
TokenPair(access_token, refresh_token) ==
    [access_token |-> access_token, refresh_token |-> refresh_token,
     token_type |-> "bearer"]

Response(op, input, code, message, data) ==
    Some([op |-> op, input |-> input, status |-> code, message |-> message,
          data |-> data])

\* The refresh and access tokens the logins recorded in table rows have issued
\* (the login that wrote row i of table tbl used the jti <<tbl, i>>), and Garbage.
Issued(tbl, rows, scope) ==
    {Garbage}
    \cup { create_refresh_token(rows[i].owner, << tbl, i >>) : i \in 1 .. Len(rows) }
    \cup { create_access_token(rows[i].owner, scope, << tbl, i >>) : i \in 1 .. Len(rows) }

\* Every token a login of the table can issue, and Garbage.
JWTs(tbl, scope) ==
    {Garbage}
    \cup { create_refresh_token(u, << tbl, i >>) : u \in UserIds, i \in 1 .. MaxLogins }
    \cup { create_access_token(u, scope, << tbl, i >>) : u \in UserIds, i \in 1 .. MaxLogins }

\* What a logout call adds to loggedOut: its argument if that is a refresh token.
LoggedOut(token) == IF token.scope = "refresh" THEN {token} ELSE {}

\* A user as register() creates it, verified or not, active or deactivated.
User(verified, active) ==
    [hashed_password   |-> pwd_hash("secret"),
     organization_type |-> "media owner",
     company_name      |-> "acme",
     role              |-> "owner",
     member_status     |-> IF active THEN "active" ELSE "deactivated",
     is_active         |-> active,
     is_verified       |-> verified]

Admin(active) == [password |-> pwd_hash("secret"), is_active |-> active]

\* get_user_by_email / authenticate_admin's query: scalar_one_or_none
get_by_email(table, email) == IF email \in DOMAIN table THEN Some(email) ELSE None

\* authenticate_user: the user, None if there is none with this address or the
\* password does not verify
authenticate_user(email, password) ==
    LET found == get_by_email(users, email)
    IN  IF found = None \/ ~pwd_verify(password, users[email].hashed_password)
        THEN None ELSE found

\* authenticate_admin: the same for the table admins
authenticate_admin(email, password) ==
    LET found == get_by_email(admins, email)
    IN  IF found = None \/ ~pwd_verify(password, admins[email].password)
        THEN None ELSE found

\* Faulty variant of LoginRefusal: an unverified user may log in.
LoginRefusal_unverified(email, password) ==
    LET user == authenticate_user(email, password)
    IN  IF user = None THEN Some("Incorrect email or password")
        ELSE IF ~users[Get(user)].is_active THEN Some("Account is inactive")
        ELSE None

\* The message login raises its 400 APIException with, None if it raises none.
LoginRefusal(email, password) ==
    LET user == authenticate_user(email, password)
    IN  IF user = None THEN Some("Incorrect email or password")
        ELSE IF ~users[Get(user)].is_verified
        THEN Some("Email not verified. Please verify your email first.")
        ELSE IF ~users[Get(user)].is_active THEN Some("Account is inactive")
        ELSE None

\* POST /login: the transaction rolls back when login raises
ClientAuthService_login(email, password) ==
    /\ Len(tokens) < MaxLogins
    /\ LET refusal == LoginRefusal(email, password)
           input   == [email |-> email, password |-> password]
           jti     == << "tokens", Len(tokens) + 1 >>
           access_token  == create_access_token(email, "client", jti)
           refresh_token == create_refresh_token(email, jti)
       IN  IF refusal # None
           THEN /\ res' = Response("login", input, 400, Get(refusal), None)
                /\ UNCHANGED tokens
           ELSE /\ tokens' = Append(Deactivate(tokens, str(email)),
                                    TokenRow(email, refresh_token))
                /\ res' = Response("login", input, 200, "Success",
                                   Some(TokenPair(access_token, refresh_token)))
    /\ UNCHANGED << users, admins, admin_tokens, loggedOut, plans, codes, pages >>

\* refresh_token of both services: the status and message it ends with
Refresh(rows, refresh_token) ==
    LET payload == verify_token(refresh_token, Some("refresh"))
        found   == IF payload = None THEN {} ELSE ActiveRows(rows, Get(payload).sub)
    IN  IF payload = None THEN << 401, "Invalid refresh token" >>
        ELSE IF Cardinality(found) > 1 THEN << 500, "MultipleResultsFound" >>
        ELSE IF found = {}
                \/ \E i \in found : ~verify_token_hash(refresh_token, rows[i].token)
        THEN << 401, "Invalid or expired refresh token" >>
        ELSE << 200, "Success" >>

\* The new access token a successful refresh returns (str() of the sub is the sub)
Refreshed(refresh_token, scope) ==
    [access_token |-> [sub |-> refresh_token.sub, jti |-> << "refresh", 0 >>,
                       scope |-> scope],
     token_type |-> "bearer"]

\* POST /refresh
ClientAuthService_refresh_token(refresh_token) ==
    /\ refresh_token \in Issued("tokens", tokens, "client")
    /\ LET out == Refresh(tokens, refresh_token)
       IN  res' = Response("refresh_token", refresh_token, out[1], out[2],
                           IF out[1] = 200 THEN Some(Refreshed(refresh_token, "client"))
                           ELSE None)
    /\ UNCHANGED << users, tokens, admins, admin_tokens, loggedOut, plans, codes, pages >>

\* POST /logout: an invalid token is ignored
ClientAuthService_logout(refresh_token) ==
    /\ refresh_token \in Issued("tokens", tokens, "client")
    /\ LET payload == verify_token(refresh_token, Some("refresh"))
       IN  tokens' = IF payload = None THEN tokens
                     ELSE Deactivate(tokens, Get(payload).sub)
    /\ res' = Response("logout", refresh_token, 200, "Success", None)
    /\ loggedOut' = loggedOut \cup LoggedOut(refresh_token)
    /\ UNCHANGED << users, admins, admin_tokens, plans, codes, pages >>

InitAuth ==
    /\ users \in [UserIds -> { User(v, a) : v \in BOOLEAN, a \in BOOLEAN }]
    /\ tokens = << >> /\ admins = << >> /\ admin_tokens = << >>
    /\ loggedOut = {} /\ res = None
    /\ NoPages /\ NoPlans /\ NoCodes

NextAuth ==
    \/ \E email \in Emails, password \in Passwords :
          ClientAuthService_login(email, password)
    \/ \E refresh_token \in JWTs("tokens", "client") :
          ClientAuthService_refresh_token(refresh_token)
    \/ \E refresh_token \in JWTs("tokens", "client") :
          ClientAuthService_logout(refresh_token)

SpecAuth == InitAuth /\ [][NextAuth]_vars

\* ------------------------------------------------------------------ backoffice
\* The message the admin login raises its 400 APIException with, None if none.
AdminLoginRefusal(email, password) ==
    LET admin == authenticate_admin(email, password)
    IN  IF admin = None THEN Some("Incorrect email or password")
        ELSE IF ~admins[Get(admin)].is_active THEN Some("Admin account is inactive")
        ELSE None

\* POST /login of the backoffice
BackofficeAuthService_login(email, password) ==
    /\ Len(admin_tokens) < MaxLogins
    /\ LET refusal == AdminLoginRefusal(email, password)
           input   == [email |-> email, password |-> password]
           jti     == << "admin_tokens", Len(admin_tokens) + 1 >>
           access_token  == create_access_token(email, "backoffice", jti)
           refresh_token == create_refresh_token(email, jti)
       IN  IF refusal # None
           THEN /\ res' = Response("login", input, 400, Get(refusal), None)
                /\ UNCHANGED admin_tokens
           ELSE /\ admin_tokens' = Append(Deactivate(admin_tokens, str(email)),
                                          TokenRow(email, refresh_token))
                /\ res' = Response("login", input, 200, "Success",
                                   Some(TokenPair(access_token, refresh_token)))
    /\ UNCHANGED << users, tokens, admins, loggedOut, plans, codes, pages >>

\* POST /refresh of the backoffice
BackofficeAuthService_refresh_token(refresh_token) ==
    /\ refresh_token \in Issued("admin_tokens", admin_tokens, "backoffice")
    /\ LET out == Refresh(admin_tokens, refresh_token)
       IN  res' = Response("refresh_token", refresh_token, out[1], out[2],
                           IF out[1] = 200
                           THEN Some(Refreshed(refresh_token, "backoffice"))
                           ELSE None)
    /\ UNCHANGED << users, tokens, admins, admin_tokens, loggedOut, plans, codes, pages >>

\* The scope logout of the backoffice verifies its refresh_token argument with.
LogoutScope == "backoffice"

\* POST /logout of the backoffice: an invalid token is ignored
BackofficeAuthService_logout(refresh_token) ==
    /\ refresh_token \in Issued("admin_tokens", admin_tokens, "backoffice")
    /\ LET payload == verify_token(refresh_token, Some(LogoutScope))
           found   == IF payload = None THEN {}
                      ELSE ActiveRows(admin_tokens, Get(payload).sub)
       IN  IF Cardinality(found) > 1
           THEN /\ res' = Response("logout", refresh_token, 500,
                                   "MultipleResultsFound", None)
                /\ UNCHANGED admin_tokens
           ELSE /\ admin_tokens' =
                      [i \in 1 .. Len(admin_tokens) |->
                          IF i \in found
                          THEN [admin_tokens[i] EXCEPT !.is_active = FALSE]
                          ELSE admin_tokens[i]]
                /\ res' = Response("logout", refresh_token, 200, "Success", None)
    /\ loggedOut' = loggedOut \cup LoggedOut(refresh_token)
    /\ UNCHANGED << users, tokens, admins, plans, codes, pages >>

InitAdmin ==
    /\ admins \in [UserIds -> { Admin(a) : a \in BOOLEAN }]
    /\ admin_tokens = << >> /\ users = << >> /\ tokens = << >>
    /\ loggedOut = {} /\ res = None
    /\ NoPages /\ NoPlans /\ NoCodes

NextAdmin ==
    \/ \E email \in Emails, password \in Passwords :
          BackofficeAuthService_login(email, password)
    \/ \E refresh_token \in JWTs("admin_tokens", "backoffice") :
          BackofficeAuthService_refresh_token(refresh_token)
    \/ \E refresh_token \in JWTs("admin_tokens", "backoffice") :
          BackofficeAuthService_logout(refresh_token)

SpecAdmin == InitAdmin /\ [][NextAdmin]_vars

\* ------------------------------------------------------------------ team
\* The companies of the deployment: (organization_type, company_name).
Companies == { << "media owner", "acme" >>, << "media agency", "acme" >>,
               << "media owner", "zenith" >> }
TeamRoles == {"owner", "admin", "operator"}
TeamOps   == {"deactivate_member", "activate_member",
              "change_role_admin_to_operator", "change_role_operator_to_admin"}

\* A verified user of a company, as register() or accept_invite() leaves it.
Member(company, role) ==
    [User(TRUE, TRUE) EXCEPT !.organization_type = company[1],
                             !.company_name = company[2],
                             !.role = role]

\* get_current_user for a valid access token of user_id: the exception it
\* raises, None if it returns the user
get_current_user(user_id) ==
    IF ~users[user_id].is_active THEN Some(<< 401, "Inactive user" >>) ELSE None

\* Faulty variant of _get_member_in_same_company: organization_type is not compared.
_get_member_in_same_company_by_name(user_id, current_user) ==
    IF /\ user_id \in DOMAIN users
       /\ users[user_id].company_name = current_user.company_name
    THEN Some(user_id) ELSE None

\* TeamService._get_member_in_same_company: the member, None where it raises 404
_get_member_in_same_company(user_id, current_user) ==
    IF /\ user_id \in DOMAIN users
       /\ users[user_id].organization_type = current_user.organization_type
       /\ users[user_id].company_name = current_user.company_name
    THEN Some(user_id) ELSE None

\* The checks the four operations start with: the exception raised, None if
\* the caller passes and the member is found.
TeamRefusal(caller, member_id, allowed, message) ==
    LET current_user == users[caller]
    IN  IF get_current_user(caller) # None THEN get_current_user(caller)
        ELSE IF current_user.role \notin allowed THEN Some(<< 403, message >>)
        ELSE IF current_user.member_status # "active"
        THEN Some(<< 403, "Your account is not active" >>)
        ELSE IF _get_member_in_same_company(member_id, current_user) = None
        THEN Some(<< 404, "Member not found" >>)
        ELSE None

\* The response of a team request that raised refusal, or none.
TeamResponse(op, caller, member_id, refusal) ==
    IF refusal # None
    THEN Response(op, [caller |-> caller, member_id |-> member_id],
                  Get(refusal)[1], Get(refusal)[2], None)
    ELSE Response(op, [caller |-> caller, member_id |-> member_id],
                  200, "Success", None)

\* POST /members/{member_id}/deactivate; an exception rolls the transaction back
TeamService_deactivate_member(caller, member_id) ==
    /\ LET checks  == TeamRefusal(caller, member_id, {"owner", "admin"},
                                  "Only owner or admin can manage team members")
           refusal == IF checks # None THEN checks
                      ELSE IF member_id = caller
                      THEN Some(<< 400, "You cannot deactivate yourself" >>)
                      ELSE None
       IN  /\ res' = TeamResponse("deactivate_member", caller, member_id, refusal)
           /\ users' = IF refusal # None THEN users
                       ELSE [users EXCEPT ![member_id].member_status = "deactivated",
                                          ![member_id].is_active = FALSE]
    /\ UNCHANGED << tokens, admins, admin_tokens, loggedOut, plans, codes, pages >>

\* POST /members/{member_id}/activate
TeamService_activate_member(caller, member_id) ==
    /\ LET refusal == TeamRefusal(caller, member_id, {"owner", "admin"},
                                  "Only owner or admin can manage team members")
       IN  /\ res' = TeamResponse("activate_member", caller, member_id, refusal)
           /\ users' = IF refusal # None THEN users
                       ELSE [users EXCEPT ![member_id].member_status = "active",
                                          ![member_id].is_active = TRUE]
    /\ UNCHANGED << tokens, admins, admin_tokens, loggedOut, plans, codes, pages >>

\* The checks of the two role changes: only the owner may, and never on an owner.
ChangeRoleRefusal(caller, member_id) ==
    LET checks == TeamRefusal(caller, member_id, {"owner"},
                              "Only owner can change member roles")
    IN  IF checks # None THEN checks
        ELSE IF users[member_id].role = "owner"
        THEN Some(<< 400, "Cannot change role of owner" >>)
        ELSE None

\* POST /members/{member_id}/make-operator
TeamService_change_role_admin_to_operator(caller, member_id) ==
    /\ LET refusal == ChangeRoleRefusal(caller, member_id)
       IN  /\ res' = TeamResponse("change_role_admin_to_operator", caller, member_id,
                                  refusal)
           /\ users' = IF refusal # None THEN users
                       ELSE [users EXCEPT ![member_id].role = "operator"]
    /\ UNCHANGED << tokens, admins, admin_tokens, loggedOut, plans, codes, pages >>

\* POST /members/{member_id}/make-admin
TeamService_change_role_operator_to_admin(caller, member_id) ==
    /\ LET refusal == ChangeRoleRefusal(caller, member_id)
       IN  /\ res' = TeamResponse("change_role_operator_to_admin", caller, member_id,
                                  refusal)
           /\ users' = IF refusal # None THEN users
                       ELSE [users EXCEPT ![member_id].role = "admin"]
    /\ UNCHANGED << tokens, admins, admin_tokens, loggedOut, plans, codes, pages >>

InitTeam ==
    /\ users \in [UserIds -> { Member(c, r) : c \in Companies, r \in TeamRoles }]
    /\ tokens = << >> /\ admins = << >> /\ admin_tokens = << >>
    /\ loggedOut = {} /\ res = None
    /\ NoPages /\ NoPlans /\ NoCodes

\* member_id 0 is the id of no user
NextTeam ==
    \E caller \in UserIds, member_id \in Emails :
        \/ TeamService_deactivate_member(caller, member_id)
        \/ TeamService_activate_member(caller, member_id)
        \/ TeamService_change_role_admin_to_operator(caller, member_id)
        \/ TeamService_change_role_operator_to_admin(caller, member_id)

SpecTeam == InitTeam /\ [][NextTeam]_vars

\* ------------------------------------------------------------------ media plans
PlanIds     == 1 .. MaxPlans
CampaignIds == 1 .. MaxCampaigns

\* A row of media_plan_campaigns, and a row of campaign_inventories
MediaPlanCampaign(media_plan_id, campaign_id) ==
    [media_plan_id |-> media_plan_id, campaign_id |-> campaign_id]
CampaignInventory(campaign_id, inventory_id) ==
    [campaign_id |-> campaign_id, inventory_id |-> inventory_id]

\* The values of users.organization_type met in the table
OrganizationTypes == {"media owner", "Media-Owner", "media agency"}

\* (organization_type or "").replace("-", " ").lower()
Normalized(organization_type) ==
    CASE organization_type = "media owner"  -> "media owner"
      [] organization_type = "Media-Owner"  -> "media owner"
      [] organization_type = "media agency" -> "media agency"
      [] OTHER -> ""

\* Faulty variant of Delete: the campaigns of the plan go with it.
Delete_campaigns(media_plan_id) ==
    LET linked == { l.campaign_id :
                      l \in { m \in media_plan_campaigns :
                                 m.media_plan_id = media_plan_id } }
    IN  [media_plans |-> media_plans \ {media_plan_id},
         media_plan_campaigns |->
             { l \in media_plan_campaigns : l.media_plan_id # media_plan_id },
         campaigns |-> campaigns \ linked,
         campaign_inventories |->
             { i \in campaign_inventories : i.campaign_id \notin linked }]

\* db.delete(media_plan) and the flush: the row of the plan goes, and with it
\* the rows of the secondary table media_plan_campaigns that name it (the
\* relationship MediaPlan.campaigns has no delete cascade onto Campaign).
Delete(media_plan_id) ==
    [media_plans |-> media_plans \ {media_plan_id},
     media_plan_campaigns |->
         { l \in media_plan_campaigns : l.media_plan_id # media_plan_id },
     campaigns |-> campaigns,
     campaign_inventories |-> campaign_inventories]

\* The exception delete_media_plan raises, None if it raises none.
DeleteRefusal(current_user, media_plan_id) ==
    IF current_user.role \notin {"owner", "admin"}
    THEN Some(<< 403, "Only owner or admin can delete media plan" >>)
    ELSE IF Normalized(current_user.organization_type) # "media owner"
    THEN Some(<< 403, "Only media owners can delete media plan" >>)
    ELSE IF media_plan_id \notin media_plans
    THEN Some(<< 404, "Media plan not found" >>)
    ELSE None

\* DELETE /{media_plan_id}, called by an active user with this role and
\* organization type
MediaPlanService_delete_media_plan(role, organization_type, media_plan_id) ==
    /\ LET current_user == [role |-> role, organization_type |-> organization_type]
           refusal == DeleteRefusal(current_user, media_plan_id)
           input   == [current_user |-> current_user, media_plan_id |-> media_plan_id]
           after   == Delete(media_plan_id)
       IN  IF refusal # None
           THEN /\ res' = Response("delete_media_plan", input, Get(refusal)[1],
                                   Get(refusal)[2], None)
                /\ UNCHANGED plans
           ELSE /\ res' = Response("delete_media_plan", input, 200,
                                   "Media plan deleted successfully", None)
                /\ media_plans' = after.media_plans
                /\ media_plan_campaigns' = after.media_plan_campaigns
                /\ campaigns' = after.campaigns
                /\ campaign_inventories' = after.campaign_inventories
    /\ UNCHANGED << accounts, codes, pages >>

\* Every plan and every campaign exists, every campaign has a billboard and is
\* part of at least one plan (a campaign outside every plan plays no part in a
\* deletion); a plan may be empty.
InitPlans ==
    /\ media_plans = PlanIds
    /\ campaigns = CampaignIds
    /\ media_plan_campaigns \in
          SUBSET { MediaPlanCampaign(p, c) : p \in PlanIds, c \in CampaignIds }
    /\ \A c \in CampaignIds : \E l \in media_plan_campaigns : l.campaign_id = c
    /\ campaign_inventories = { CampaignInventory(c, 1) : c \in CampaignIds }
    /\ res = None
    /\ NoAccounts /\ NoPages /\ NoCodes

\* media_plan_id 0 is the id of no plan
NextPlans ==
    \E role \in TeamRoles, organization_type \in OrganizationTypes,
       media_plan_id \in 0 .. MaxPlans :
        MediaPlanService_delete_media_plan(role, organization_type, media_plan_id)

SpecPlans == InitPlans /\ [][NextPlans]_vars

\* ------------------------------------------------------------------ codes
VERIFY_CODE_EXPIRE_SECONDS   == 300
VERIFY_CODE_COOLDOWN_SECONDS == 60
RESET_CODE_EXPIRE_SECONDS    == 300
RESET_CODE_COOLDOWN_SECONDS  == 60

\* The addresses codes are requested for, and what generate_verification_code
\* may draw.
CodeEmails == {"a@seiki", "b@seiki"}
Codes      == {"100000", "999999"}
SendOps    == {"send_verification_code", "send_reset_code"}
Slots      == 1 .. MaxReqs      \* the requests, in the order they come in

\* VERIFY_CODE_KEY.format(email=email) and the three other key templates
CodeKey(op, email) ==
    IF op = "send_verification_code" THEN << "verify_code", email >>
    ELSE << "reset_code", email >>
CooldownKey(op, email) ==
    IF op = "send_verification_code" THEN << "verify_code_cooldown", email >>
    ELSE << "reset_code_cooldown", email >>
ExpireSeconds(op) ==
    IF op = "send_verification_code" THEN VERIFY_CODE_EXPIRE_SECONDS
    ELSE RESET_CODE_EXPIRE_SECONDS
CooldownSeconds(op) ==
    IF op = "send_verification_code" THEN VERIFY_CODE_COOLDOWN_SECONDS
    ELSE RESET_CODE_COOLDOWN_SECONDS

\* redis.setex(key, ttl_seconds, value) and redis.exists(key)
setex(key, ttl_seconds, value) ==
    { e \in redis : e.key # key }
    \cup {[key |-> key, value |-> value, ttl |-> ttl_seconds]}
exists(key) == \E e \in redis : e.key = key

\* A request that has come in and is about to check its cooldown.
SendRequest(op, email) == [op |-> op, email |-> email, pc |-> "check_cooldown"]

\* POST /resend-code comes in
resend_verification_code(email) ==
    /\ Len(reqs) < MaxReqs
    /\ reqs' = Append(reqs, SendRequest("send_verification_code", email))
    /\ UNCHANGED << redis, window, res, accounts, plans, pages >>

\* POST /forgot-password comes in
forgot_password(email) ==
    /\ Len(reqs) < MaxReqs
    /\ reqs' = Append(reqs, SendRequest("send_reset_code", email))
    /\ UNCHANGED << redis, window, res, accounts, plans, pages >>

\* await redis_client.check_cooldown(cooldown_key)
InCooldown(op, email) == exists(CooldownKey(op, email))

\* Request r checks the cooldown: it raises its 400 APIException "Please wait
\* 60 seconds before requesting a new code", or goes on.
check_cooldown(r) ==
    /\ r \in DOMAIN reqs
    /\ reqs[r].pc = "check_cooldown"
    /\ reqs' = [reqs EXCEPT ![r].pc =
                   IF InCooldown(reqs[r].op, reqs[r].email) THEN "raised 400"
                   ELSE "set_with_ttl"]
    /\ UNCHANGED << redis, window, res, accounts, plans, pages >>

\* code = generate_verification_code() and
\* await redis_client.set_with_ttl(code_key, code, ..._CODE_EXPIRE_SECONDS)
set_with_ttl(r) ==
    /\ r \in DOMAIN reqs
    /\ reqs[r].pc = "set_with_ttl"
    /\ \E code \in Codes :
          redis' = setex(CodeKey(reqs[r].op, reqs[r].email),
                         ExpireSeconds(reqs[r].op), code)
    /\ window' = [window EXCEPT ![<< reqs[r].op, reqs[r].email >>] = @ + 1]
    /\ reqs' = [reqs EXCEPT ![r].pc = "set_cooldown"]
    /\ UNCHANGED << res, accounts, plans, pages >>

\* await redis_client.set_cooldown(cooldown_key, ..._CODE_COOLDOWN_SECONDS), then
\* the mail is queued and the request returns
set_cooldown(r) ==
    /\ r \in DOMAIN reqs
    /\ reqs[r].pc = "set_cooldown"
    /\ redis' = setex(CooldownKey(reqs[r].op, reqs[r].email),
                      CooldownSeconds(reqs[r].op), "1")
    /\ reqs' = [reqs EXCEPT ![r].pc = "returned 200"]
    /\ UNCHANGED << window, res, accounts, plans, pages >>

\* A cooldown period goes by with no step of a request in it: the keys set for
\* no longer than that are gone (the remaining life of the longer-lived keys is
\* not tracked), and the codes stored so far belong to windows past.
Elapse ==
    /\ redis # {}
    /\ redis' = { e \in redis : e.ttl > VERIFY_CODE_COOLDOWN_SECONDS }
    /\ window' = [k \in DOMAIN window |-> 0]
    /\ UNCHANGED << reqs, res, accounts, plans, pages >>

InitCodes ==
    /\ redis = {}
    /\ reqs = << >>
    /\ window = [k \in SendOps \X CodeEmails |-> 0]
    /\ NoAccounts /\ NoPlans /\ NoPages

NextCodes ==
    \/ \E email \in CodeEmails : resend_verification_code(email)
    \/ \E email \in CodeEmails : forgot_password(email)
    \/ \E r \in Slots : check_cooldown(r)
    \/ \E r \in Slots : set_with_ttl(r)
    \/ \E r \in Slots : set_cooldown(r)
    \/ Elapse

SpecCodes == InitCodes /\ [][NextCodes]_vars

\* ------------------------------------------------------------------ invitations
INVITE_TOKEN_EXPIRE_SECONDS == 604800

MemberStatuses == {"active", "deactivated", "pending"}

\* A row of users with its address: a member of a company in one of the three
\* states the code leaves a user in (register and accept_invite: active;
\* deactivate_member: deactivated; invite_member: pending).
UserRow(email, company, role, member_status) ==
    [email             |-> email,
     hashed_password   |-> pwd_hash("secret"),
     organization_type |-> company[1],
     company_name      |-> company[2],
     role              |-> role,
     member_status     |-> member_status,
     is_active         |-> member_status = "active",
     is_verified       |-> member_status # "pending"]

\* User(email=email, ..., member_status=PENDING, is_active=False, is_verified=False)
InvitedUser(email, current_user, role) ==
    [email             |-> email,
     hashed_password   |-> pwd_hash("random"),
     organization_type |-> current_user.organization_type,
     company_name      |-> current_user.company_name,
     role              |-> role,
     member_status     |-> "pending",
     is_active         |-> FALSE,
     is_verified       |-> FALSE]

\* TeamService.get_user_by_email: scalar_one_or_none of the rows with the address
TeamService_get_user_by_email(email) ==
    LET found == { i \in DOMAIN users : users[i].email = email }
    IN  IF found = {} THEN None ELSE Some(CHOOSE i \in found : TRUE)

\* db.add(user) and the flush: users.email is unique, so the INSERT of a row
\* with an address the table holds fails with an IntegrityError (None).
flush_add(rows, row) ==
    IF \E i \in DOMAIN rows : rows[i].email = row.email THEN None
    ELSE Some(Append(rows, row))

\* redis.setex(key, ttl_seconds, value) on the keys given
setex_on(entries, key, ttl_seconds, value) ==
    { e \in entries : e.key # key }
    \cup {[key |-> key, value |-> value, ttl |-> ttl_seconds]}

\* The invitations sent so far; generate_invite_token() draws a token no
\* invitation before has had, written as the number of the invitation.
Invitations == Cardinality({ e \in redis : e.key[1] = "invite_token" })

\* The APIException invite_member raises (after get_current_user), None if it
\* raises none.
InviteRefusal(caller, email) ==
    LET current_user  == users[caller]
        existing_user == TeamService_get_user_by_email(email)
    IN  IF get_current_user(caller) # None THEN get_current_user(caller)
        ELSE IF current_user.role \notin {"owner", "admin"}
        THEN Some(<< 403, "Only owner or admin can invite team members" >>)
        ELSE IF current_user.member_status # "active"
        THEN Some(<< 403, "Your account is not active" >>)
        ELSE IF existing_user = None THEN None
        ELSE IF /\ users[Get(existing_user)].organization_type
                      = current_user.organization_type
                /\ users[Get(existing_user)].company_name = current_user.company_name
        THEN IF users[Get(existing_user)].member_status = "active"
             THEN Some(<< 400, "This email is already a team member" >>)
             ELSE None
        ELSE Some(<< 400, "This email is already registered" >>)

\* POST /invite: an exception rolls the transaction back, and the keys of the
\* invitation are written after the flush only
TeamService_invite_member(caller, email, role) ==
    /\ Invitations < MaxInvites
    /\ LET current_user  == users[caller]
           existing_user == TeamService_get_user_by_email(email)
           refusal       == InviteRefusal(caller, email)
           invite_token  == Invitations + 1
           input         == [caller |-> caller, email |-> email, role |-> role]
           flushed ==
               IF /\ existing_user # None
                  /\ users[Get(existing_user)].member_status = "pending"
               THEN Some([users EXCEPT ![Get(existing_user)].role = role])
               ELSE flush_add(users, InvitedUser(email, current_user, role))
       IN  IF refusal # None
           THEN /\ res' = Response("invite_member", input, Get(refusal)[1],
                                   Get(refusal)[2], None)
                /\ UNCHANGED << users, redis >>
           ELSE IF flushed = None
           THEN /\ res' = Response("invite_member", input, 500,
                                   "Internal server error", None)
                /\ UNCHANGED << users, redis >>
           ELSE /\ users' = Get(flushed)
                /\ redis' = setex_on(setex_on(redis, << "invite_token", invite_token >>,
                                              INVITE_TOKEN_EXPIRE_SECONDS, email),
                                     << "invite_email", email >>,
                                     INVITE_TOKEN_EXPIRE_SECONDS, invite_token)
                /\ res' = Response("invite_member", input, 200, "Success",
                                   Some([expires_in |-> INVITE_TOKEN_EXPIRE_SECONDS]))
    /\ UNCHANGED << tokens, admins, admin_tokens, loggedOut, plans, reqs, window,
                    pages >>

\* User 1 is an active member of the first company, in any role; user u > 1
\* has address u and is an admin or operator of any company, in any state.
InitInvite ==
    /\ \E role \in TeamRoles :
       \E others \in [UserIds \ {1} ->
                         Companies \X {"admin", "operator"} \X MemberStatuses] :
          users = [u \in UserIds |->
                     IF u = 1
                     THEN UserRow(1, << "media owner", "acme" >>, role, "active")
                     ELSE UserRow(u, others[u][1], others[u][2], others[u][3])]
    /\ tokens = << >> /\ admins = << >> /\ admin_tokens = << >>
    /\ loggedOut = {} /\ res = None
    /\ NoPages /\ NoPlans /\ NoCodes

NextInvite ==
    \E caller \in UserIds, email \in Emails, role \in TeamRoles :
        TeamService_invite_member(caller, email, role)

SpecInvite == InitInvite /\ [][NextInvite]_vars

\* ------------------------------------------------------------------ claims
\* The envelope of the Paginator after a paginate() call that returned.
Returned == endpoint = "Paginator" /\ calls > 0 /\ raised = None

\* The outcome and the arguments of the last ApiResponse.paginate call.
Api == endpoint = "ApiResponse" /\ resp # None
r_status == Get(resp).status
r_data   == Get(Get(resp).data)
a_page   == Get(args).page
a_per    == Get(args).per_page
a_func   == Get(args).transform_func

\* n is the ceiling of total / per_page, stated without the division.
IsCeil(n, total, per_page) ==
    /\ n * per_page >= total
    /\ (n - 1) * per_page < total

CeilOk(env) ==
    (env.total >= 0 /\ env.per_page >= 1) =>
        /\ IsCeil(env.last_page, env.total, env.per_page)
        /\ (env.last_page = 0 <=> env.total = 0)

\* C1: in every envelope of a completed paginate() call, of the Paginator (also
\* after a second call with another per_page) and of ApiResponse.paginate,
\* last_page is the ceiling of total / per_page, and is 0 exactly when total is 0.
C1_LastPageIsCeil ==
    /\ Returned => CeilOk(to_dict)
    /\ (Api /\ r_status = 200) => CeilOk(r_data)

\* a second call on the instance, 2 per page after 1 per page: 1 row, 1 page
C1_Witness ==
    /\ Returned /\ calls = 2 /\ Len(Get(_result)) = 1
    /\ to_dict.total = 1 /\ to_dict.per_page = 2 /\ to_dict.last_page = 1

\* The entities of the query's rows at positions (page-1)*per_page + 1 .. page*per_page.
RowsOfPage(rows, page, per_page) ==
    LET first == (page - 1) * per_page
        n     == Min(per_page, Len(rows) - first)
    IN  [i \in 1 .. n |-> rows[first + i][1]]

Ents(items) == [i \in 1 .. Len(items) |-> items[i].ent]

PageOk(env, rows) ==
    env.current_page \in 1 .. env.last_page =>
        /\ Ents(env.items) = RowsOfPage(rows, env.current_page, env.per_page)
        /\ Len(env.items) = IF env.current_page < env.last_page
                            THEN env.per_page
                            ELSE env.total - (env.current_page - 1) * env.per_page

\* C2: while no row is inserted or deleted (muts = 0: the store still holds the
\* rows every query of the run has seen) and no processor or transform runs,
\* the items of page p in 1 .. last_page are the query's rows at positions
\* (p-1)*per_page up to page*per_page, in order; every page but the last holds
\* per_page items, the last one total - (p-1)*per_page.
C2_PageIsSliceOfQuery ==
    /\ (Returned /\ muts = 0 /\ _processors = << >>) => PageOk(to_dict, store)
    /\ (Api /\ r_status = 200 /\ muts = 0 /\ a_func = None) => PageOk(r_data, store)

\* the second of two pages holds the second row
C2_Witness ==
    /\ Returned /\ muts = 0 /\ _processors = << >>
    /\ Len(store) = 2 /\ _page = 2 /\ _per_page = 1 /\ to_dict.last_page = 2
    /\ Ents(to_dict.items) = << store[2][1] >>

\* C3 as stated: a page or per_page below 1 never ends in an error, in the
\* Paginator and in ApiResponse.paginate, and the envelope is that of the value 1.
C3_InvalidParamsNeverAnError ==
    /\ (endpoint = "Paginator" /\ calls > 0) =>
          /\ raised = None
          /\ (a_page < 1 => to_dict.current_page = 1)
          /\ (a_per < 1 => to_dict.per_page = 1)
    /\ (Api /\ (a_page < 1 \/ a_per < 1)) =>
          /\ r_status = 200
          /\ r_data.current_page >= 1
          /\ r_data.per_page >= 1

\* C3 amended: Paginator.paginate never raises on a page or per_page below 1 and
\* uses 1 in its place; ApiResponse.paginate rejects such a call with the 400
\* error "Invalid page or per_page parameter" before issuing any query.
C3_PaginatorClampsApiRejects ==
    /\ (endpoint = "Paginator" /\ calls > 0) =>
          /\ raised = None
          /\ to_dict.current_page = (IF a_page < 1 THEN 1 ELSE a_page)
          /\ to_dict.per_page = (IF a_per < 1 THEN 1 ELSE a_per)
    /\ Api =>
          ((a_page < 1 \/ a_per < 1) <=>
              /\ r_status = 400
              /\ Get(resp).message = "Invalid page or per_page parameter"
              /\ Get(resp).data = None
              /\ Get(resp).counts = 0 /\ Get(resp).pages = 0)

\* paginate(0, 0) on the Paginator returned the first page with one item
C3_Witness ==
    /\ Returned /\ a_page = 0 /\ a_per = 0
    /\ to_dict.current_page = 1 /\ to_dict.per_page = 1 /\ Len(to_dict.items) = 1

\* C4 as stated: items never holds more than per_page elements, in any state of
\* a Paginator and in any envelope of ApiResponse.paginate, whatever the
\* processors and the transform.
C4_ItemsWithinPerPage ==
    /\ endpoint = "Paginator" => Len(to_dict.items) <= to_dict.per_page
    /\ (Api /\ r_status = 200) => Len(r_data.items) <= r_data.per_page

\* Whether f is among the callables of the sequence procs.
Used(f, procs) == \E i \in 1 .. Len(procs) : procs[i] = f

\* C4 amended: the page query never returns more than per_page rows, and items
\* never holds more than per_page elements unless a processor or transform that
\* lengthens the list has been registered or passed.
C4_ItemsWithinPerPageUnlessLengthened ==
    /\ (endpoint = "Paginator" /\ _result # None) => Len(Get(_result)) <= _per_page
    /\ (endpoint = "Paginator" /\ ~Used("dup", _processors)) =>
          Len(to_dict.items) <= to_dict.per_page
    /\ (Api /\ r_status = 200 /\ a_func # Some("dup")) =>
          Len(r_data.items) <= r_data.per_page

\* a full page out of 2 rows, mapped, with a filter registered afterwards
C4_Witness ==
    /\ Returned /\ Len(store) = 2 /\ Len(to_dict.items) = _per_page
    /\ to_dict.items[1].form = "model" /\ _processors = << "drop" >>

\* C5: on one Paginator instance the count query is issued by the first
\* paginate() call only; the total it cached is the count of the rows at that
\* moment and no later call changes it, whatever happened to the rows since.
C5_TotalCountedOnce ==
    [][ /\ (calls = 0 /\ calls' = 1) =>
              (countQueries' = 1 /\ _total' = Some(Len(store)))
        /\ _total # None =>
              (_total' = _total /\ countQueries' = countQueries) ]_vars

\* a second call fetched two rows although the cached total says one
C5_Witness ==
    /\ Returned /\ calls = 2 /\ countQueries = 1
    /\ _total = Some(1) /\ Len(Get(_result)) = 2

\* C6 as stated: every paginate() invocation issues exactly one count query and
\* exactly one page query.
C6_OneCountOnePagePerCall ==
    /\ endpoint = "Paginator" => (countQueries = calls /\ pageQueries = calls)
    /\ Api => (Get(resp).counts = 1 /\ Get(resp).pages = 1)

\* C6 amended: every Paginator.paginate() call issues exactly one page query
\* and only the first call on an instance issues the count query;
\* ApiResponse.paginate issues one count and one page query when it returns an
\* envelope, the count query alone when it raises 404 and no query when it
\* raises 400. (Reading a property is no step of the model: it reads the state.)
C6_QueriesPerCall ==
    /\ endpoint = "Paginator" =>
          /\ pageQueries = calls
          /\ countQueries = (IF calls = 0 THEN 0 ELSE 1)
    /\ Api =>
          /\ r_status = 200 => (Get(resp).counts = 1 /\ Get(resp).pages = 1)
          /\ r_status = 404 => (Get(resp).counts = 1 /\ Get(resp).pages = 0)
          /\ r_status = 400 => (Get(resp).counts = 0 /\ Get(resp).pages = 0)

\* two calls on one instance: two page queries, one count query
C6_Witness == Returned /\ calls = 2 /\ pageQueries = 2 /\ countQueries = 1

\* C7 as stated: Paginator.paginate with a page beyond last_page returns with
\* no items, total and last_page taken from the count, current_page as requested.
C7_OutOfRangePageIsEmpty ==
    (endpoint = "Paginator" /\ calls > 0 /\ a_page > to_dict.last_page) =>
        /\ raised = None
        /\ to_dict.items = << >>
        /\ IsCeil(to_dict.last_page, to_dict.total, to_dict.per_page)
        /\ to_dict.current_page = a_page

\* C7 amended: Paginator.paginate with a page beyond last_page raises nothing,
\* total and last_page are those of the instance's count and current_page is
\* the requested page; items is empty as long as no row has been inserted or
\* deleted since the count (muts = 0), while after an insert the cached total
\* is stale and such a page can hold rows.
C7_OutOfRangePageIsEmptyWhileUnchanged ==
    (endpoint = "Paginator" /\ calls > 0 /\ a_page > to_dict.last_page) =>
        /\ raised = None
        /\ muts = 0 => (to_dict.items = << >> /\ to_dict.total = Len(store))
        /\ IsCeil(to_dict.last_page, to_dict.total, to_dict.per_page)
        /\ to_dict.current_page = a_page

\* page 2 of a query with 2 rows, 2 per page
C7_Witness ==
    /\ Returned /\ muts = 0 /\ Len(store) = 2 /\ a_page = 2
    /\ to_dict.current_page = 2 /\ to_dict.last_page = 1 /\ to_dict.items = << >>

\* The last page of total rows, per_page > 0 each: the least n with n * per_page >= total.
LeastCover(total, per_page) ==
    CHOOSE n \in 0 .. total : n * per_page >= total /\ (n - 1) * per_page < total

\* C8: ApiResponse.paginate raises 404 "Page not found" exactly when
\* page > last_page and last_page > 0, and then issues no page query; over an
\* empty result set every valid call returns an envelope with no items,
\* last_page 0 and has_more false. (muts = 0: store is what the call counted.)
C8_NotFoundOnlyBeyondLastPage ==
    (Api /\ muts = 0) =>
        LET last_page == IF a_per > 0 THEN LeastCover(Len(store), a_per) ELSE 0
        IN  /\ r_status = 404 <=> (a_page > last_page /\ last_page > 0)
            /\ r_status = 404 =>
                  /\ Get(resp).message = "Page not found"
                  /\ Get(resp).pages = 0
                  /\ Get(resp).data = None
            /\ (Len(store) = 0 /\ a_page >= 1 /\ a_per >= 1) =>
                  /\ r_status = 200
                  /\ r_data.items = << >>
                  /\ r_data.last_page = 0
                  /\ r_data.has_more = FALSE

\* page 2 of a query with 2 rows, 2 per page: 404 after the count query alone
C8_Witness ==
    /\ Api /\ muts = 0 /\ Len(store) = 2 /\ a_page = 2 /\ a_per = 2
    /\ r_status = 404 /\ Get(resp).counts = 1 /\ Get(resp).pages = 0

HasMoreOk(env) == env.has_more = (env.current_page < env.last_page)

\* C9: has_more = (current_page < last_page) in every state of a Paginator,
\* the one before the first paginate() call included (last_page 0, has_more
\* false), and in every envelope ApiResponse.paginate builds.
C9_HasMoreIffBeforeLastPage ==
    /\ endpoint = "Paginator" =>
          /\ HasMoreOk(to_dict)
          /\ calls = 0 => (to_dict.last_page = 0 /\ to_dict.has_more = FALSE)
    /\ (Api /\ r_status = 200) => HasMoreOk(r_data)

\* the first of two pages reports more, on the last page it does not
C9_Witness ==
    /\ Returned /\ to_dict.current_page = 1 /\ to_dict.last_page = 2
    /\ to_dict.has_more = TRUE

\* C10: after Paginator.paginate without processors, a one-column result gives
\* the entities themselves; with more columns the item at every position is
\* the first-column entity of the row at that position and carries that row's
\* extra column as the attribute named by the column alias.
C10_ItemsCarryTheirRowsColumns ==
    (Returned /\ _processors = << >>) =>
        LET rows == Get(_result)
        IN  /\ Len(to_dict.items) = Len(rows)
            /\ \A i \in 1 .. Len(rows) :
                  /\ to_dict.items[i].ent = rows[i][1]
                  /\ Len(keys(query)) = 1 => attrs[rows[i][1]] = None
                  /\ Len(keys(query)) > 1 =>
                        attrs[to_dict.items[i].ent] = Some(rows[i][2])

\* The items after the first k of the processors procs ran on the fetched list:
\* processor k receives what processor k - 1 returned.
RECURSIVE AfterProcessor(_, _, _)
AfterProcessor(procs, fetched, k) ==
    IF k = 0 THEN fetched ELSE Call(procs[k], AfterProcessor(procs, fetched, k - 1))

\* The entities of the rows of a page, as the ORM returns them.
FetchedOf(rows) == [i \in 1 .. Len(rows) |-> Entity(rows[i][1])]

\* C11: process(callback) only registers the callback: it appends it to the
\* registered processors and changes neither the items, the total, the page,
\* the fetched rows nor the number of queries issued; the next paginate() call
\* runs all registered processors one after another in registration order, each
\* on the output of the one before, the last output becoming the item list.
C11_ProcessRegistersPaginateChains ==
    [][ /\ (_processors' # _processors =>
              /\ \E callback \in Processors : _processors' = Append(_processors, callback)
              /\ UNCHANGED << _items, _total, _page, _per_page, _last_page, _result,
                              calls, countQueries, pageQueries, store, query, attrs >>)
        /\ ((calls' = calls + 1 /\ raised' = None) =>
              /\ _processors' = _processors
              /\ _items' = Some(AfterProcessor(_processors, FetchedOf(Get(_result')),
                                               Len(_processors))))
      ]_vars

\* "drop" registered before "dup": one of two fetched rows is left, twice
C11_Witness ==
    /\ Returned /\ _processors = << "drop", "dup" >>
    /\ Len(Get(_result)) = 2
    /\ Ents(to_dict.items) = << Get(_result)[2][1], Get(_result)[2][1] >>

\* C12: a paginate(page, per_page) call that repeats the call before it, with
\* nothing else done on the instance in between and no row inserted or deleted,
\* yields the envelope of the call before it (items, total, per_page,
\* current_page, last_page, has_more, and the attributes attached to the
\* items); two ApiResponse.paginate calls with identical arguments yield
\* identical responses.
C12_RepeatedCallSameEnvelope ==
    /\ (Returned /\ before # None /\ Get(before) # << >> /\ muts = 0) =>
          /\ to_dict = Get(before)[1]
          /\ attrs = Get(before)[2]
    /\ (Api /\ before # None /\ Get(before) # << >> /\ muts = 0) =>
          /\ Get(resp) = Get(before)[1]
          /\ attrs = Get(before)[2]

\* the second page of one row, asked for twice, with a processor registered
C12_Witness ==
    /\ Returned /\ calls = 2 /\ muts = 0 /\ _processors = << "dup" >>
    /\ before # None /\ Get(before) # << >>
    /\ _page = 2 /\ _per_page = 1 /\ Len(to_dict.items) = 2

\* C13: a paginate() call of the Paginator never commits, rolls back or closes
\* the session it was lent (it leaves it in the transaction its statements
\* began), leaves the rows of the store and the caller's query unchanged, and
\* fetches the rows at offset (page - 1) * per_page of this call alone, whatever
\* the offsets and limits of the calls before it.
C13_PaginateOnlyReads ==
    [][ (calls' = calls + 1) =>
          /\ session' = "begun"
          /\ session # "new" => session' = session
          /\ store' = store
          /\ query' = query
          /\ raised' = None
          /\ [i \in 1 .. Len(Get(_result')) |-> Get(_result')[i][1]]
                = RowsOfPage(store, Max(1, Get(args').page), Max(1, Get(args').per_page))
      ]_vars

\* the first page after the second page on one instance
C13_Witness ==
    /\ Returned /\ calls = 2 /\ muts = 0 /\ session = "begun"
    /\ Len(store) = 2 /\ _page = 1 /\ _per_page = 1
    /\ countQueries = 1 /\ pageQueries = 2
    /\ Get(_result) = << store[1] >>

\* C19 as stated: in a list built by ApiResponse.paginate with the transform of
\* the list endpoints over select(Entity, aggregate), every item carries the
\* aggregate of its row.
C19_AggregatesReachTheTransform ==
    (Api /\ r_status = 200 /\ a_func = Some("transform") /\ query = "entity_aggregate") =>
        \A i \in 1 .. Len(r_data.items) :
            r_data.items[i].billboards = Row(query, r_data.items[i].ent)[2]

\* The last row of a token table that a login of the owner named by sub wrote,
\* 0 if there is none.
LastLogin(rows, sub) ==
    LET own == { i \in 1 .. Len(rows) : ColumnEq(rows[i].owner, sub) }
    IN  IF own = {} THEN 0 ELSE CHOOSE i \in own : \A j \in own : j <= i

C16_LoginRequiresVerifiedActiveUser ==
    [][ (res' # None /\ Get(res').op = "login") =>
          LET r     == Get(res')
              email == r.input.email
              ok    == /\ email \in DOMAIN users
                       /\ users[email].hashed_password = pwd_hash(r.input.password)
                       /\ users[email].is_verified
                       /\ users[email].is_active
              n     == Len(tokens')
          IN  IF ok
              THEN /\ r.status = 200
                   /\ r.data # None
                   /\ Get(r.data).refresh_token.scope = "refresh"
                   /\ Get(r.data).access_token.scope = "client"
                   /\ Get(r.data).access_token.sub = str(email)
                   /\ n = Len(tokens) + 1
                   /\ tokens'[n] = TokenRow(email, Get(r.data).refresh_token)
              ELSE /\ r.status = 400
                   /\ r.data = None
                   /\ tokens' = tokens ]_vars

\* An unverified user who gives the right password is refused while the table
\* holds an active token.
C16_Witness ==
    /\ res # None
    /\ Get(res).op = "login"
    /\ Get(res).status = 400
    /\ Get(res).input.email \in DOMAIN users
    /\ Get(res).input.password = "secret"
    /\ ~users[Get(res).input.email].is_verified
    /\ \E i \in 1 .. Len(tokens) : tokens[i].is_active

\* C20: after a backoffice logout with the refresh token the admin's last login
\* returned, the admin has no active AdminToken row, and a later refresh_token
\* call with a refresh token that logout was called with ends with 401.
C20_AdminLogoutInvalidatesSession ==
    /\ (/\ res # None
        /\ Get(res).op = "logout"
        /\ Get(res).input.scope = "refresh"
        /\ LastLogin(admin_tokens, Get(res).input.sub) > 0
        /\ Get(res).input.jti =
              << "admin_tokens", LastLogin(admin_tokens, Get(res).input.sub) >>)
       => ActiveRows(admin_tokens, Get(res).input.sub) = {}
    /\ (/\ res # None
        /\ Get(res).op = "refresh_token"
        /\ Get(res).input \in loggedOut)
       => Get(res).status = 401

\* C17: a team operation succeeds only for an active caller whose role is
\* owner or admin (owner for the role changes) and only on a user whose
\* organization_type and company_name equal the caller's; it changes no other
\* user than that member; with a member_id outside the caller's company it
\* changes nothing and, for a caller who passes the role and status checks,
\* ends with 404 "Member not found" (403 or 401 for a caller who does not).
C17_TeamConfinedToCompany ==
    [][ (res' # None /\ Get(res').op \in TeamOps) =>
          LET r       == Get(res')
              caller  == r.input.caller
              id      == r.input.member_id
              roles   == IF r.op \in {"deactivate_member", "activate_member"}
                         THEN {"owner", "admin"} ELSE {"owner"}
              allowed == /\ users[caller].is_active
                         /\ users[caller].member_status = "active"
                         /\ users[caller].role \in roles
              same    == /\ id \in DOMAIN users
                         /\ users[id].organization_type = users[caller].organization_type
                         /\ users[id].company_name = users[caller].company_name
          IN  /\ r.status = 200 => allowed /\ same
              /\ \A u \in DOMAIN users :
                    users'[u] # users[u] => u = id /\ same /\ r.status = 200
              /\ ~same =>
                    /\ users' = users
                    /\ IF allowed
                       THEN r.status = 404 /\ r.message = "Member not found"
                       ELSE r.status \in {401, 403} ]_vars

\* An active owner or admin names a user of the company with the same name but
\* another organization type, and gets 404.
C17_Witness ==
    /\ res # None
    /\ Get(res).op \in TeamOps
    /\ Get(res).status = 404
    /\ Get(res).input.member_id \in DOMAIN users
    /\ users[Get(res).input.member_id].company_name =
          users[Get(res).input.caller].company_name

\* C18: delete_media_plan never changes the table campaigns nor the table
\* campaign_inventories; when it succeeds it removes the media plan and exactly
\* the media_plan_campaigns rows of that plan, and when it raises it changes
\* nothing.
C18_DeleteMediaPlanKeepsCampaigns ==
    [][ (res' # None /\ Get(res').op = "delete_media_plan") =>
          LET r  == Get(res')
              id == r.input.media_plan_id
          IN  /\ campaigns' = campaigns
              /\ campaign_inventories' = campaign_inventories
              /\ r.status = 200 =>
                    /\ id \in media_plans
                    /\ media_plans' = media_plans \ {id}
                    /\ media_plan_campaigns' =
                          { l \in media_plan_campaigns : l.media_plan_id # id }
              /\ r.status # 200 =>
                    /\ media_plans' = media_plans
                    /\ media_plan_campaigns' = media_plan_campaigns ]_vars

\* A plan has been deleted, and a campaign that was part of it (every campaign
\* starts in a plan) is left in no plan, with its billboard.
C18_Witness ==
    /\ res # None
    /\ Get(res).op = "delete_media_plan"
    /\ Get(res).status = 200
    /\ Get(res).input.media_plan_id \notin media_plans
    /\ \E c \in campaigns :
          /\ \A l \in media_plan_campaigns : l.campaign_id # c
          /\ \E i \in campaign_inventories : i.campaign_id = c

\* C14: within one cooldown window at most one verification code and at most
\* one reset code is stored for an email, also when requests for the same
\* email are handled concurrently.
C14_OneCodePerCooldownWindow ==
    \A k \in DOMAIN window : window[k] <= 1

\* C21: no call of invite_member creates a user with the role owner, and none
\* changes the role of an existing pending user to owner: every row of users
\* that a call adds or changes has the role admin or operator afterwards.
C21_InviteNeverAssignsOwner ==
    [][ (res' # None /\ Get(res').op = "invite_member") =>
          \A i \in DOMAIN users' :
              (i \notin DOMAIN users \/ users'[i] # users[i]) =>
                  users'[i].role \in {"admin", "operator"} ]_vars

\* C22: when an active owner or admin invites an address that already belongs
\* to a user, the call ends with status 400 and changes no user, unless that
\* user is pending in the caller's company: then the call succeeds on the
\* existing row; in both cases the table users has as many rows as before and
\* no two rows with the same address.
C22_ExistingEmailRejectedOrReused ==
    [][ (/\ res' # None
         /\ Get(res').op = "invite_member"
         /\ LET caller == users[Get(res').input.caller]
            IN  /\ caller.is_active
                /\ caller.member_status = "active"
                /\ caller.role \in {"owner", "admin"}
         /\ \E i \in DOMAIN users : users[i].email = Get(res').input.email) =>
          LET r        == Get(res')
              caller   == users[r.input.caller]
              i        == CHOOSE j \in DOMAIN users : users[j].email = r.input.email
              reusable == /\ users[i].member_status = "pending"
                          /\ users[i].organization_type = caller.organization_type
                          /\ users[i].company_name = caller.company_name
          IN  /\ IF reusable
                 THEN /\ r.status = 200
                      /\ \A j \in DOMAIN users \ {i} : users'[j] = users[j]
                 ELSE /\ r.status = 400
                      /\ users' = users
              /\ Len(users') = Len(users)
              /\ \A j, k \in DOMAIN users' :
                    users'[j].email = users'[k].email => j = k ]_vars
====
